---------------------------- MODULE Spec2Model ----------------------------
(***************************************************************************)
(* Resilience core of the AI call agent: the exception taxonomy            *)
(* (exceptions.py), the circuit breaker (circuit_breaker.py), the retry    *)
(* manager (retry_manager.py) and the orchestrator (call_agent.py).        *)
(*                                                                         *)
(* Specifications:                                                         *)
(*   SpecBreaker   one CircuitBreaker driven by sequential call(), reset() *)
(*                 and the passing of time;                                *)
(*   SpecConc      two threads running call() on one CircuitBreaker, one   *)
(*                 attribute read or write per step;                       *)
(*   SpecRetry     one run of RetryManager.execute_with_retry;             *)
(*   SpecPipeline  sequential CallAgent.process_call invocations;          *)
(*   SpecClassify  classify_error applied to one status code.              *)
(***************************************************************************)
EXTENDS Integers, Sequences, FiniteSets

VARIABLES
    cb,          \* the CircuitBreaker under test (SpecBreaker, SpecConc)
    now,         \* time.time()
    func_calls,  \* number of invocations of the wrapped function
    last,        \* the last operation on the breaker and what it did
    fails_since, \* failed invocations since creation / last success / reset()
    th,          \* SpecConc: each thread's position and locals inside call()
    rm,          \* SpecRetry: the RetryManager configuration
    rt,          \* SpecRetry: locals of the running execute_with_retry
    fn_log,      \* SpecRetry: outcome of every invocation of func, in order
    sleeps,      \* SpecRetry: argument of every time.sleep(), in order
    breakers,    \* SpecPipeline: stt_breaker, llm_breaker, tts_breaker
    pl,          \* SpecPipeline: position and locals of process_call
    logs,        \* SpecPipeline: records ErrorLogger.log_error appended to the
                 \* log file since the current process_call was entered
    alerts,      \* SpecPipeline: records AlertSystem.send_alert appended to
                 \* the alert file since the current process_call was entered
    trace,       \* SpecPipeline: the invocations of stage functions by the
                 \* current process_call: stage, argument and outcome
    entry_breakers, \* SpecPipeline: the three breakers as they were when
                 \* the current process_call was entered
    status_code, \* SpecClassify: the argument of classify_error
    classified   \* SpecClassify: what classify_error returned

breakerVars  == <<cb, now, func_calls, last, fails_since, th>>
retryVars    == <<rm, rt, fn_log, sleeps>>
pipelineVars == <<breakers, pl, logs, alerts, trace, entry_breakers>>
classifyVars == <<status_code, classified>>
vars == <<cb, now, func_calls, last, fails_since, th,
          rm, rt, fn_log, sleeps, breakers, pl, logs, alerts, trace,
          entry_breakers, status_code, classified>>

(***************************************************************************)
(* Bounds of the model.                                                    *)
(***************************************************************************)
MaxThreshold == 3   \* failure_threshold is drawn from 1..MaxThreshold
MaxTimeout == 2     \* timeout is drawn from 1..MaxTimeout
MaxTime == 5        \* the clock is advanced by Tick up to MaxTime
MaxFuncCalls == 5   \* invocations of the wrapped function per behaviour
MaxDur == 1         \* time a wrapped function may take
MaxThreadCalls == 2 \* call()s each thread of SpecConc starts
MaxConcThreshold == 2 \* SpecConc: failure_threshold is drawn from 1..MaxConcThreshold
MaxConcTime == 2    \* SpecConc: the clock is advanced up to MaxConcTime
MaxResets == 1      \* SpecConcReset: reset()s each thread starts
MaxInitialDelay == 5 \* SpecRetry: initial_delay is drawn from 1..MaxInitialDelay
MaxMultiplier == 2  \* SpecRetry: backoff_multiplier is drawn from 1..MaxMultiplier
MaxAttempts == 3    \* SpecRetry: max_attempts is drawn from 0..MaxAttempts
MaxProcessCalls == 2 \* SpecPipeline: process_call invocations per behaviour
MaxWaits == 2       \* SpecPipeline: waits between invocations per behaviour
MaxStatusCode == 601 \* SpecClassify: status codes are drawn from
                    \* -MaxStatusCode..MaxStatusCode

(***************************************************************************)
(* exceptions.py: the exception classes.  An exception object is a record  *)
(* [cls, id]; id tells two objects of one class apart.                     *)
(***************************************************************************)
TransientClasses ==
    {"TransientError", "TimeoutError", "NetworkError",
     "ServiceUnavailableError", "RateLimitError"}

PermanentClasses ==
    {"PermanentError", "AuthenticationError", "InvalidPayloadError",
     "QuotaExceededError", "ResourceNotFoundError"}

\* isinstance(e, TransientError)
IsTransientError(e) == e.cls \in TransientClasses

\* isinstance(e, PermanentError)
IsPermanentError(e) == e.cls \in PermanentClasses

\* What a wrapped function may raise: a transient kind, a permanent kind, or
\* an exception outside the CallAgentError hierarchy.
FuncFailures == {"TimeoutError", "AuthenticationError", "RuntimeError"}

\* A wrapped function returns ("ok") or raises one of FuncFailures.
FuncOutcomes == {"ok"} \cup FuncFailures

\* The plain Exception raised by CircuitBreaker.call when it fails fast.
CircuitOpenError == [cls |-> "Exception", id |-> 0]

NoError == [cls |-> "none", id |-> 0]

ClassifyErrorTimeoutOnly408(code) ==
    IF code = 503 THEN [cls |-> "ServiceUnavailableError", id |-> code]
    ELSE IF code = 429 THEN [cls |-> "RateLimitError", id |-> code]
    ELSE IF code = 408 THEN [cls |-> "TimeoutError", id |-> code]
    ELSE IF code = 401 \/ code = 403
    THEN [cls |-> "AuthenticationError", id |-> code]
    ELSE IF code = 404 THEN [cls |-> "ResourceNotFoundError", id |-> code]
    ELSE IF code = 400 THEN [cls |-> "InvalidPayloadError", id |-> code]
    ELSE IF 500 <= code /\ code < 600
    THEN [cls |-> "TransientError", id |-> code]
    ELSE [cls |-> "PermanentError", id |-> code]

\* classify_error(status_code): the exception object it returns; its message
\* carries the status code, kept here as the id.
classify_error(code) ==
    IF code = 503 THEN [cls |-> "ServiceUnavailableError", id |-> code]
    ELSE IF code = 429 THEN [cls |-> "RateLimitError", id |-> code]
    ELSE IF code = 408 \/ code = 504 THEN [cls |-> "TimeoutError", id |-> code]
    ELSE IF code = 401 \/ code = 403
    THEN [cls |-> "AuthenticationError", id |-> code]
    ELSE IF code = 404 THEN [cls |-> "ResourceNotFoundError", id |-> code]
    ELSE IF code = 400 THEN [cls |-> "InvalidPayloadError", id |-> code]
    ELSE IF 500 <= code /\ code < 600
    THEN [cls |-> "TransientError", id |-> code]
    ELSE [cls |-> "PermanentError", id |-> code]

(***************************************************************************)
(* circuit_breaker.py                                                      *)
(***************************************************************************)
CLOSED == "CLOSED"
OPEN == "OPEN"
HALF_OPEN == "HALF_OPEN"
CircuitState == {CLOSED, OPEN, HALF_OPEN}

\* last_failure_time = None
None == -1

\* CircuitBreaker.__init__
NewBreaker(failure_threshold, timeout) ==
    [failure_threshold |-> failure_threshold,
     timeout           |-> timeout,
     state             |-> CLOSED,
     failure_count     |-> 0,
     last_failure_time |-> None,
     success_count     |-> 0]

OnSuccessKeepsCount(b) ==
    IF b.state = HALF_OPEN
    THEN [b EXCEPT !.state = CLOSED, !.success_count = 0]
    ELSE b

OnSuccessLeavesCountWhenClosed(b) ==
    IF b.state = HALF_OPEN
    THEN [b EXCEPT !.state = CLOSED, !.failure_count = 0, !.success_count = 0]
    ELSE b

\* CircuitBreaker._on_success
_on_success(b) ==
    IF b.state = HALF_OPEN
    THEN [b EXCEPT !.state = CLOSED, !.failure_count = 0, !.success_count = 0]
    ELSE IF b.state = CLOSED
    THEN [b EXCEPT !.failure_count = 0]
    ELSE b

OnFailureTripsLate(b, t) ==
    LET c == b.failure_count + 1
        b1 == [b EXCEPT !.failure_count = c, !.last_failure_time = t]
    IN  IF b.state = HALF_OPEN
        THEN [b1 EXCEPT !.state = OPEN]
        ELSE IF b.state = CLOSED /\ c > b.failure_threshold
        THEN [b1 EXCEPT !.state = OPEN]
        ELSE b1

OnFailureStampsOnTripOnly(b, t) ==
    LET c == b.failure_count + 1
        b1 == [b EXCEPT !.failure_count = c]
    IN  IF b.state = HALF_OPEN
        THEN [b1 EXCEPT !.state = OPEN]
        ELSE IF b.state = CLOSED /\ c >= b.failure_threshold
        THEN [b1 EXCEPT !.state = OPEN, !.last_failure_time = t]
        ELSE b1

OnFailureProbeNotCounted(b, t) ==
    LET c == b.failure_count + 1
        b1 == [b EXCEPT !.failure_count = c, !.last_failure_time = t]
    IN  IF b.state = HALF_OPEN
        THEN [b EXCEPT !.state = OPEN, !.last_failure_time = t]
        ELSE IF b.state = CLOSED /\ c >= b.failure_threshold
        THEN [b1 EXCEPT !.state = OPEN]
        ELSE b1

OnFailureTripsEarly(b, t) ==
    LET c == b.failure_count + 1
        b1 == [b EXCEPT !.failure_count = c, !.last_failure_time = t]
    IN  IF b.state = HALF_OPEN
        THEN [b1 EXCEPT !.state = OPEN]
        ELSE IF b.state = CLOSED /\ c >= b.failure_threshold - 1
        THEN [b1 EXCEPT !.state = OPEN]
        ELSE b1

\* CircuitBreaker._on_failure, with time.time() = t
_on_failure(b, t) ==
    LET c == b.failure_count + 1
        b1 == [b EXCEPT !.failure_count = c, !.last_failure_time = t]
    IN  IF b.state = HALF_OPEN
        THEN [b1 EXCEPT !.state = OPEN]
        ELSE IF b.state = CLOSED /\ c >= b.failure_threshold
        THEN [b1 EXCEPT !.state = OPEN]
        ELSE b1

ShouldAttemptResetNever(b, t) == FALSE

ShouldAttemptResetIgnoresStamp(b, t) ==
    /\ b.last_failure_time # None
    /\ t >= b.timeout

ShouldAttemptResetStrict(b, t) ==
    /\ b.last_failure_time # None
    /\ t - b.last_failure_time > b.timeout

\* CircuitBreaker._should_attempt_reset, with time.time() = t
_should_attempt_reset(b, t) ==
    /\ b.last_failure_time # None
    /\ t - b.last_failure_time >= b.timeout

ResetKeepsStamp(b) ==
    [b EXCEPT !.state = CLOSED, !.failure_count = 0]

\* CircuitBreaker.reset
reset(b) ==
    [b EXCEPT !.state = CLOSED, !.failure_count = 0, !.last_failure_time = None]

\* CircuitBreaker.get_state
get_state(b) == [state |-> b.state, failure_count |-> b.failure_count]

\* The exception object a wrapped function raises on its n-th invocation.
Raised(outcome, n) == [cls |-> outcome, id |-> n]

CallCountsTransientOnly(b, t0, t1, outcome, n) ==
    IF b.state = OPEN /\ ~_should_attempt_reset(b, t0)
    THEN [cb |-> b, invoked |-> FALSE, state_at_invoke |-> "none",
          raised |-> CircuitOpenError]
    ELSE LET b1 == IF b.state = OPEN
                   THEN [b EXCEPT !.state = HALF_OPEN]
                   ELSE b
         IN  IF outcome = "ok"
             THEN [cb |-> _on_success(b1), invoked |-> TRUE,
                   state_at_invoke |-> b1.state, raised |-> NoError]
             ELSE [cb |-> IF outcome \in TransientClasses
                          THEN _on_failure(b1, t1)
                          ELSE b1,
                   invoked |-> TRUE,
                   state_at_invoke |-> b1.state, raised |-> Raised(outcome, n)]

CallRejectionRefreshesStamp(b, t0, t1, outcome, n) ==
    IF b.state = OPEN /\ ~_should_attempt_reset(b, t0)
    THEN [cb |-> [b EXCEPT !.last_failure_time = t0], invoked |-> FALSE,
          state_at_invoke |-> "none", raised |-> CircuitOpenError]
    ELSE LET b1 == IF b.state = OPEN
                   THEN [b EXCEPT !.state = HALF_OPEN]
                   ELSE b
         IN  IF outcome = "ok"
             THEN [cb |-> _on_success(b1), invoked |-> TRUE,
                   state_at_invoke |-> b1.state, raised |-> NoError]
             ELSE [cb |-> _on_failure(b1, t1), invoked |-> TRUE,
                   state_at_invoke |-> b1.state, raised |-> Raised(outcome, n)]

CallWrapsFailure(b, t0, t1, outcome, n) ==
    IF b.state = OPEN /\ ~_should_attempt_reset(b, t0)
    THEN [cb |-> b, invoked |-> FALSE, state_at_invoke |-> "none",
          raised |-> CircuitOpenError]
    ELSE LET b1 == IF b.state = OPEN
                   THEN [b EXCEPT !.state = HALF_OPEN]
                   ELSE b
         IN  IF outcome = "ok"
             THEN [cb |-> _on_success(b1), invoked |-> TRUE,
                   state_at_invoke |-> b1.state, raised |-> NoError]
             ELSE [cb |-> _on_failure(b1, t1), invoked |-> TRUE,
                   state_at_invoke |-> b1.state,
                   raised |-> [cls |-> "Exception", id |-> n]]

\* CircuitBreaker.call, lines 59-62: the breaker record under which the
\* wrapped function runs when a call() entered at time t0 invokes it.
BeforeInvoke(b, t0) ==
    IF b.state = OPEN /\ _should_attempt_reset(b, t0)
    THEN [b EXCEPT !.state = HALF_OPEN]
    ELSE b

\* CircuitBreaker.call run to completion.  The call is entered at time t0;
\* the wrapped function, when it is invoked, is invocation number n, ends at
\* time t1 and returns or raises as `outcome` says.  The result tells the
\* breaker record afterwards, whether the function was invoked, the state
\* the function ran under, and the exception call() raises (NoError when it
\* returns the function's result).
call(b, t0, t1, outcome, n) ==
    IF b.state = OPEN /\ ~_should_attempt_reset(b, t0)
    THEN [cb |-> b, invoked |-> FALSE, state_at_invoke |-> "none",
          raised |-> CircuitOpenError]
    ELSE LET b1 == IF b.state = OPEN
                   THEN [b EXCEPT !.state = HALF_OPEN]
                   ELSE b
         IN  IF outcome = "ok"
             THEN [cb |-> _on_success(b1), invoked |-> TRUE,
                   state_at_invoke |-> b1.state, raised |-> NoError]
             ELSE [cb |-> _on_failure(b1, t1), invoked |-> TRUE,
                   state_at_invoke |-> b1.state, raised |-> Raised(outcome, n)]

(***************************************************************************)
(* SpecBreaker: one breaker, operations one after the other.               *)
(***************************************************************************)
\* `last`: the operation, whether it invoked the wrapped function and in which
\* breaker state, what call() raised, and the time at which the most recent
\* HALF_OPEN probe failed when nothing but rejected calls and the passing of
\* time happened since (None otherwise).
NoOp == [op |-> "init", invoked |-> FALSE, state_at_invoke |-> "none",
         raised |-> NoError, probe_failed_at |-> None]

ThreadIds == {1, 2}

\* A thread outside call(): its position, the failure_count it has read for
\* `+= 1`, the state its call() found at line 59, how many call()s it has
\* started, how many of its invocations of the wrapped function have
\* failed with _on_failure run to the end, and how many reset()s it has
\* started.
ThIdle == [pc |-> "idle", tmp |-> 0, found |-> "none",
           calls |-> 0, fails |-> 0, resets |-> 0]

RetryIdle == [pc |-> "idle", attempt |-> 0, current_delay |-> 0,
              raised |-> NoError]

\* process_call not running: no call made yet (pc "idle") or the last one has
\* returned `result` (pc "done").  stage is the stage being run and arg the
\* argument its service function is called with, attempt, current_delay and
\* raised are the locals of its execute_with_retry, calls counts the
\* process_call invocations and waits the waits between them.
PipelineIdle == [pc |-> "idle", stage |-> 0, arg |-> "none", attempt |-> 0,
                 current_delay |-> 0, raised |-> NoError, result |-> "none",
                 calls |-> 0, waits |-> 0]

\* The variables of the other specifications, parked.
RetryParked ==
    /\ rm = [initial_delay |-> 0, backoff_multiplier |-> 0, max_attempts |-> 0]
    /\ rt = RetryIdle
    /\ fn_log = << >>
    /\ sleeps = << >>

PipelineParked ==
    /\ breakers = << >>
    /\ pl = PipelineIdle
    /\ logs = << >>
    /\ alerts = << >>
    /\ trace = << >>
    /\ entry_breakers = << >>

ClassifyParked ==
    /\ status_code = 0
    /\ classified = NoError

InitBreaker ==
    /\ \E T \in 1..MaxThreshold, to \in 1..MaxTimeout : cb = NewBreaker(T, to)
    /\ now = 0
    /\ func_calls = 0
    /\ last = NoOp
    /\ fails_since = 0
    /\ th = [i \in ThreadIds |-> ThIdle]
    /\ RetryParked
    /\ PipelineParked
    /\ ClassifyParked

\* breaker.call(func) where func takes d time units and ends as `outcome`.
Call(outcome, d) ==
    /\ func_calls < MaxFuncCalls
    /\ LET r == call(cb, now, now + d, outcome, func_calls + 1)
       IN  /\ cb' = r.cb
           /\ now' = IF r.invoked THEN now + d ELSE now
           /\ func_calls' = IF r.invoked THEN func_calls + 1 ELSE func_calls
           /\ last' = [op |-> "call", invoked |-> r.invoked,
                       state_at_invoke |-> r.state_at_invoke,
                       raised |-> r.raised,
                       probe_failed_at |->
                           IF ~r.invoked THEN last.probe_failed_at
                           ELSE IF r.state_at_invoke = HALF_OPEN /\ outcome # "ok"
                           THEN now + d
                           ELSE None]
           /\ fails_since' = IF ~r.invoked THEN fails_since
                             ELSE IF outcome = "ok" THEN 0
                             ELSE fails_since + 1
    /\ UNCHANGED <<th, retryVars, pipelineVars, classifyVars>>

\* breaker.reset()
Reset ==
    /\ cb' = reset(cb)
    /\ last' = [NoOp EXCEPT !.op = "reset"]
    /\ fails_since' = 0
    /\ UNCHANGED <<now, func_calls, th, retryVars, pipelineVars, classifyVars>>

\* One time unit passes.
Tick ==
    /\ now < MaxTime
    /\ now' = now + 1
    /\ last' = [NoOp EXCEPT !.op = "tick",
                             !.probe_failed_at = last.probe_failed_at]
    /\ UNCHANGED <<cb, func_calls, fails_since, th, retryVars,
                   pipelineVars, classifyVars>>

NextBreaker ==
    \/ \E outcome \in FuncOutcomes, d \in 0..MaxDur : Call(outcome, d)
    \/ Reset
    \/ Tick

SpecBreaker == InitBreaker /\ [][NextBreaker]_vars

\* The same breaker with a caller that keeps calling and a clock that keeps
\* running: a call() that can be made is eventually made, and time passes
\* as long as the clock is below MaxTime.
SomeCall == \E outcome \in FuncOutcomes, d \in 0..MaxDur : Call(outcome, d)

SpecBreakerLive ==
    /\ InitBreaker
    /\ [][NextBreaker]_vars
    /\ WF_vars(Tick)
    /\ WF_vars(SomeCall)

(***************************************************************************)
(* SpecConc: two threads inside call() on one breaker.  The breaker takes  *)
(* no lock, so every read and every write of an attribute is a step of its *)
(* own; th[i].pc names the source line thread i executes next.             *)
(***************************************************************************)
InitConc ==
    /\ \E T \in 1..MaxConcThreshold : cb = NewBreaker(T, 1)
    /\ now = 0
    /\ func_calls = 0
    /\ last = NoOp
    /\ fails_since = 0
    /\ th = [i \in ThreadIds |-> ThIdle]
    /\ RetryParked
    /\ PipelineParked
    /\ ClassifyParked

concFrame == <<last, fails_since, retryVars, pipelineVars, classifyVars>>

Goto(i, line) == th' = [th EXCEPT ![i].pc = line]

\* call() returns the result (line 73) or raises the circuit-open error
\* (line 65): the thread is outside call() again.
Leave(i) == th' = [th EXCEPT ![i].pc = "idle"]

\* call() re-raises the wrapped function's exception (line 78).
LeaveFailed(i) ==
    th' = [th EXCEPT ![i].pc = "idle", ![i].fails = th[i].fails + 1]

\* line 59: if self.state == CircuitState.OPEN
L59_ReadState(i) ==
    /\ th[i].pc = "idle"
    /\ th[i].calls < MaxThreadCalls
    /\ th' = [th EXCEPT ![i].calls = th[i].calls + 1,
                        ![i].found = cb.state,
                        ![i].pc = IF cb.state = OPEN THEN "l110" ELSE "l69"]
    /\ UNCHANGED <<cb, now, func_calls, concFrame>>

\* line 110: if self.last_failure_time is None: return False (line 65 raises)
L110_ReadStamp(i) ==
    /\ th[i].pc = "l110"
    /\ IF cb.last_failure_time = None THEN Leave(i) ELSE Goto(i, "l113")
    /\ UNCHANGED <<cb, now, func_calls, concFrame>>

\* lines 113-114: time.time() - self.last_failure_time >= self.timeout
\* (line 65 raises when it is not)
L113_ReadElapsed(i) ==
    /\ th[i].pc = "l113"
    /\ IF cb.last_failure_time # None
          /\ now - cb.last_failure_time >= cb.timeout
       THEN Goto(i, "l62")
       ELSE Leave(i)
    /\ UNCHANGED <<cb, now, func_calls, concFrame>>

\* line 62: self.state = CircuitState.HALF_OPEN
L62_WriteHalfOpen(i) ==
    /\ th[i].pc = "l62"
    /\ cb' = [cb EXCEPT !.state = HALF_OPEN]
    /\ Goto(i, "l69")
    /\ UNCHANGED <<now, func_calls, concFrame>>

\* line 69: func(*args, **kwargs) is entered
L69_InvokeFunc(i) ==
    /\ th[i].pc = "l69"
    /\ func_calls' = func_calls + 1
    /\ Goto(i, "in_func")
    /\ UNCHANGED <<cb, now, concFrame>>

\* line 69: func returns, or raises (line 75)
L69_FuncEnds(i, outcome) ==
    /\ th[i].pc = "in_func"
    /\ Goto(i, IF outcome = "ok" THEN "l82" ELSE "l94r")
    /\ UNCHANGED <<cb, now, func_calls, concFrame>>

\* line 82: if self.state == CircuitState.HALF_OPEN
L82_ReadState(i) ==
    /\ th[i].pc = "l82"
    /\ Goto(i, IF cb.state = HALF_OPEN THEN "l85" ELSE "l88")
    /\ UNCHANGED <<cb, now, func_calls, concFrame>>

\* line 85: self.state = CircuitState.CLOSED
L85_WriteClosed(i) ==
    /\ th[i].pc = "l85"
    /\ cb' = [cb EXCEPT !.state = CLOSED]
    /\ Goto(i, "l86")
    /\ UNCHANGED <<now, func_calls, concFrame>>

\* line 86: self.failure_count = 0
L86_WriteCount(i) ==
    /\ th[i].pc = "l86"
    /\ cb' = [cb EXCEPT !.failure_count = 0]
    /\ Goto(i, "l87")
    /\ UNCHANGED <<now, func_calls, concFrame>>

\* line 87: self.success_count = 0, then call() returns (line 73)
L87_WriteSuccessCount(i) ==
    /\ th[i].pc = "l87"
    /\ cb' = [cb EXCEPT !.success_count = 0]
    /\ Leave(i)
    /\ UNCHANGED <<now, func_calls, concFrame>>

\* line 88: elif self.state == CircuitState.CLOSED
L88_ReadState(i) ==
    /\ th[i].pc = "l88"
    /\ IF cb.state = CLOSED THEN Goto(i, "l90") ELSE Leave(i)
    /\ UNCHANGED <<cb, now, func_calls, concFrame>>

\* line 90: self.failure_count = 0, then call() returns (line 73)
L90_WriteCount(i) ==
    /\ th[i].pc = "l90"
    /\ cb' = [cb EXCEPT !.failure_count = 0]
    /\ Leave(i)
    /\ UNCHANGED <<now, func_calls, concFrame>>

\* line 94: self.failure_count += 1, the read
L94_ReadCount(i) ==
    /\ th[i].pc = "l94r"
    /\ th' = [th EXCEPT ![i].tmp = cb.failure_count, ![i].pc = "l94w"]
    /\ UNCHANGED <<cb, now, func_calls, concFrame>>

\* line 94: self.failure_count += 1, the write
L94_WriteCount(i) ==
    /\ th[i].pc = "l94w"
    /\ cb' = [cb EXCEPT !.failure_count = th[i].tmp + 1]
    /\ Goto(i, "l95")
    /\ UNCHANGED <<now, func_calls, concFrame>>

\* line 95: self.last_failure_time = time.time()
L95_WriteStamp(i) ==
    /\ th[i].pc = "l95"
    /\ cb' = [cb EXCEPT !.last_failure_time = now]
    /\ Goto(i, "l97")
    /\ UNCHANGED <<now, func_calls, concFrame>>

\* line 97: if self.state == CircuitState.HALF_OPEN
L97_ReadState(i) ==
    /\ th[i].pc = "l97"
    /\ Goto(i, IF cb.state = HALF_OPEN THEN "l100" ELSE "l102")
    /\ UNCHANGED <<cb, now, func_calls, concFrame>>

\* line 100: self.state = CircuitState.OPEN, then call() raises (line 78)
L100_WriteOpen(i) ==
    /\ th[i].pc = "l100"
    /\ cb' = [cb EXCEPT !.state = OPEN]
    /\ LeaveFailed(i)
    /\ UNCHANGED <<now, func_calls, concFrame>>

\* line 102: elif self.state == CircuitState.CLOSED
L102_ReadState(i) ==
    /\ th[i].pc = "l102"
    /\ IF cb.state = CLOSED THEN Goto(i, "l104") ELSE LeaveFailed(i)
    /\ UNCHANGED <<cb, now, func_calls, concFrame>>

\* line 104: if self.failure_count >= self.failure_threshold
L104_ReadCount(i) ==
    /\ th[i].pc = "l104"
    /\ IF cb.failure_count >= cb.failure_threshold
       THEN Goto(i, "l106")
       ELSE LeaveFailed(i)
    /\ UNCHANGED <<cb, now, func_calls, concFrame>>

\* line 106: self.state = CircuitState.OPEN, then call() raises (line 78)
L106_WriteOpen(i) ==
    /\ th[i].pc = "l106"
    /\ cb' = [cb EXCEPT !.state = OPEN]
    /\ LeaveFailed(i)
    /\ UNCHANGED <<now, func_calls, concFrame>>

\* One time unit passes.
TickConc ==
    /\ now < MaxConcTime
    /\ now' = now + 1
    /\ UNCHANGED <<cb, func_calls, th, concFrame>>

ThreadStep(i) ==
    \/ L59_ReadState(i)
    \/ L110_ReadStamp(i)
    \/ L113_ReadElapsed(i)
    \/ L62_WriteHalfOpen(i)
    \/ L69_InvokeFunc(i)
    \/ \E outcome \in FuncOutcomes : L69_FuncEnds(i, outcome)
    \/ L82_ReadState(i)
    \/ L85_WriteClosed(i)
    \/ L86_WriteCount(i)
    \/ L87_WriteSuccessCount(i)
    \/ L88_ReadState(i)
    \/ L90_WriteCount(i)
    \/ L94_ReadCount(i)
    \/ L94_WriteCount(i)
    \/ L95_WriteStamp(i)
    \/ L97_ReadState(i)
    \/ L100_WriteOpen(i)
    \/ L102_ReadState(i)
    \/ L104_ReadCount(i)
    \/ L106_WriteOpen(i)

NextConc ==
    \/ \E i \in ThreadIds : ThreadStep(i)
    \/ TickConc

SpecConc == InitConc /\ [][NextConc]_vars

(***************************************************************************)
(* SpecConcReset: the threads of SpecConc may also run reset(), one        *)
(* attribute write per step.                                               *)
(***************************************************************************)
\* line 127: self.state = CircuitState.CLOSED
L127_WriteClosed(i) ==
    /\ th[i].pc = "idle"
    /\ th[i].resets < MaxResets
    /\ cb' = [cb EXCEPT !.state = CLOSED]
    /\ th' = [th EXCEPT ![i].resets = th[i].resets + 1, ![i].pc = "l128"]
    /\ UNCHANGED <<now, func_calls, concFrame>>

\* line 128: self.failure_count = 0
L128_WriteCount(i) ==
    /\ th[i].pc = "l128"
    /\ cb' = [cb EXCEPT !.failure_count = 0]
    /\ Goto(i, "l129")
    /\ UNCHANGED <<now, func_calls, concFrame>>

\* line 129: self.last_failure_time = None, then reset() returns
L129_WriteStamp(i) ==
    /\ th[i].pc = "l129"
    /\ cb' = [cb EXCEPT !.last_failure_time = None]
    /\ Leave(i)
    /\ UNCHANGED <<now, func_calls, concFrame>>

ResetStep(i) ==
    \/ L127_WriteClosed(i)
    \/ L128_WriteCount(i)
    \/ L129_WriteStamp(i)

NextConcReset ==
    \/ \E i \in ThreadIds : ThreadStep(i)
    \/ \E i \in ThreadIds : ResetStep(i)
    \/ TickConc

SpecConcReset == InitConc /\ [][NextConcReset]_vars

(***************************************************************************)
(* retry_manager.py                                                        *)
(***************************************************************************)
\* RetryManager.__init__
NewRetryManager(initial_delay, backoff_multiplier, max_attempts) ==
    [initial_delay      |-> initial_delay,
     backoff_multiplier |-> backoff_multiplier,
     max_attempts       |-> max_attempts]

\* execute_with_retry, lines 41-42: the locals before the loop.
RetryStart(cfg) ==
    [pc |-> "loop", attempt |-> 0, current_delay |-> cfg.initial_delay,
     raised |-> NoError]

OnResultRetriesOnceMore(cfg, loc, e) ==
    IF e = NoError
    THEN [loc EXCEPT !.pc = "returned"]
    ELSE IF IsTransientError(e)
    THEN IF loc.attempt + 1 > cfg.max_attempts
         THEN [loc EXCEPT !.attempt = @ + 1, !.pc = "raised", !.raised = e]
         ELSE [loc EXCEPT !.attempt = @ + 1, !.pc = "sleep"]
    ELSE [loc EXCEPT !.pc = "raised", !.raised = e]

OnResultSleepsBeforeGivingUp(cfg, loc, e) ==
    IF e = NoError
    THEN [loc EXCEPT !.pc = "returned"]
    ELSE IF IsTransientError(e)
    THEN [loc EXCEPT !.attempt = @ + 1, !.pc = "sleep"]
    ELSE [loc EXCEPT !.pc = "raised", !.raised = e]

OnResultRetriesCircuitOpen(cfg, loc, e) ==
    IF e = NoError
    THEN [loc EXCEPT !.pc = "returned"]
    ELSE IF IsTransientError(e) \/ e = CircuitOpenError
    THEN IF loc.attempt + 1 >= cfg.max_attempts
         THEN [loc EXCEPT !.attempt = @ + 1, !.pc = "raised", !.raised = e]
         ELSE [loc EXCEPT !.attempt = @ + 1, !.pc = "sleep"]
    ELSE [loc EXCEPT !.pc = "raised", !.raised = e]

OnResultRetriesUnrecognized(cfg, loc, e) ==
    IF e = NoError
    THEN [loc EXCEPT !.pc = "returned"]
    ELSE IF IsPermanentError(e)
    THEN [loc EXCEPT !.pc = "raised", !.raised = e]
    ELSE IF loc.attempt + 1 >= cfg.max_attempts
    THEN [loc EXCEPT !.attempt = @ + 1, !.pc = "raised", !.raised = e]
    ELSE [loc EXCEPT !.attempt = @ + 1, !.pc = "sleep"]

OnResultRetriesWithoutSleep(cfg, loc, e) ==
    IF e = NoError
    THEN [loc EXCEPT !.pc = "returned"]
    ELSE IF IsTransientError(e)
    THEN IF loc.attempt + 1 >= cfg.max_attempts
         THEN [loc EXCEPT !.attempt = @ + 1, !.pc = "raised", !.raised = e]
         ELSE [loc EXCEPT !.attempt = @ + 1, !.pc = "loop"]
    ELSE [loc EXCEPT !.pc = "raised", !.raised = e]

\* execute_with_retry, lines 45-81: what one pass of the loop body does once
\* func has returned (e = NoError) or raised e.
OnResult(cfg, loc, e) ==
    IF e = NoError
    THEN [loc EXCEPT !.pc = "returned"]
    ELSE IF IsTransientError(e)
    THEN IF loc.attempt + 1 >= cfg.max_attempts
         THEN [loc EXCEPT !.attempt = @ + 1, !.pc = "raised", !.raised = e]
         ELSE [loc EXCEPT !.attempt = @ + 1, !.pc = "sleep"]
    ELSE IF IsPermanentError(e)
    THEN [loc EXCEPT !.pc = "raised", !.raised = e]
    ELSE [loc EXCEPT !.pc = "raised", !.raised = e]

AfterSleepKeepsDelay(cfg, loc) == [loc EXCEPT !.pc = "loop"]

\* execute_with_retry, lines 65-69: after time.sleep(current_delay) the delay
\* is multiplied and the loop goes round.
AfterSleep(cfg, loc) ==
    [loc EXCEPT !.current_delay = @ * cfg.backoff_multiplier, !.pc = "loop"]

(***************************************************************************)
(* SpecRetry: one run of execute_with_retry(func, ...) for an arbitrary    *)
(* func.                                                                   *)
(***************************************************************************)
BreakerParked ==
    /\ cb = NewBreaker(1, 1)
    /\ now = 0
    /\ func_calls = 0
    /\ last = NoOp
    /\ fails_since = 0
    /\ th = [i \in ThreadIds |-> ThIdle]

\* What the func handed to execute_with_retry may do: what a wrapped service
\* function does, or, func being breaker.call, the breaker's own plain
\* Exception.
RetryFuncOutcomes == FuncOutcomes \cup {CircuitOpenError.cls}

InitRetry ==
    /\ \E d \in 1..MaxInitialDelay, m \in 1..MaxMultiplier, N \in 0..MaxAttempts :
          rm = NewRetryManager(d, m, N)
    /\ rt = RetryStart(rm)
    /\ fn_log = << >>
    /\ sleeps = << >>
    /\ BreakerParked
    /\ PipelineParked
    /\ ClassifyParked

\* line 44, the loop test passes; line 47, func is invoked and returns or
\* raises; lines 50-81, the result is handled.
Attempt(outcome) ==
    /\ rt.pc = "loop"
    /\ rt.attempt < rm.max_attempts
    /\ LET e == IF outcome = "ok" THEN NoError
                ELSE Raised(outcome, Len(fn_log) + 1)
       IN  /\ fn_log' = Append(fn_log, e)
           /\ rt' = OnResult(rm, rt, e)
    /\ UNCHANGED <<rm, sleeps, breakerVars, pipelineVars, classifyVars>>

\* line 65, time.sleep(current_delay); line 69, current_delay *= multiplier.
Sleep ==
    /\ rt.pc = "sleep"
    /\ sleeps' = Append(sleeps, rt.current_delay)
    /\ rt' = AfterSleep(rm, rt)
    /\ UNCHANGED <<rm, fn_log, breakerVars, pipelineVars, classifyVars>>

\* line 44, the loop test fails: the function ends without a return
\* statement and returns None.
FallThrough ==
    /\ rt.pc = "loop"
    /\ rt.attempt >= rm.max_attempts
    /\ rt' = [rt EXCEPT !.pc = "returned_none"]
    /\ UNCHANGED <<rm, fn_log, sleeps, breakerVars, pipelineVars, classifyVars>>

NextRetry ==
    \/ \E outcome \in RetryFuncOutcomes : Attempt(outcome)
    \/ Sleep
    \/ FallThrough

SpecRetry == InitRetry /\ [][NextRetry]_vars

(***************************************************************************)
(* call_agent.py                                                           *)
(***************************************************************************)
\* CallAgent.__init__: the retry policy and the breaker configuration.
AgentInitialDelay == 5
AgentBackoffMultiplier == 2
AgentMaxAttempts == 3
AgentFailureThreshold == 3
AgentTimeout == 60

\* The stages in pipeline order: 1 = STT, 2 = LLM, 3 = TTS.
ServiceName == <<"STT", "LLM", "TTS">>
Stages == 1..3

\* What a stage function does: the mock services return or raise one of the
\* TransientError / PermanentError subclasses.
StageOutcomes == {"ok", "TimeoutError", "AuthenticationError"}

\* What the service function of each stage returns.
StageReturn == <<"text", "response", "audio">>

\* self.retry_manager
AgentRetryManager ==
    NewRetryManager(AgentInitialDelay, AgentBackoffMultiplier, AgentMaxAttempts)

LogRecordAlwaysClosed(k, error_type, b) ==
    [service_name  |-> ServiceName[k],
     error_type    |-> error_type,
     retry_count   |-> 0,
     circuit_state |-> CLOSED]

\* ErrorLogger.log_error as the stage wrappers call it.
LogRecord(k, error_type, b) ==
    [service_name  |-> ServiceName[k],
     error_type    |-> error_type,
     retry_count   |-> 0,
     circuit_state |-> get_state(b).state]

\* AlertSystem.send_alert as the stage wrappers call it.
AlertRecord(k, severity) ==
    [severity |-> severity, service_name |-> ServiceName[k],
     status |-> "UNRESOLVED"]

StageLogsTwice(k, e, b) ==
    IF IsTransientError(e)
    THEN <<LogRecord(k, "TransientError", b), LogRecord(k, "TransientError", b)>>
    ELSE IF IsPermanentError(e) THEN <<LogRecord(k, "PermanentError", b)>>
    ELSE << >>

\* The except clauses of _call_stt_service / _call_llm_service /
\* _call_tts_service: what stage k's wrapper appends to the log for the
\* exception e that execute_with_retry raised.
StageLogs(k, e, b) ==
    IF IsTransientError(e) THEN <<LogRecord(k, "TransientError", b)>>
    ELSE IF IsPermanentError(e) THEN <<LogRecord(k, "PermanentError", b)>>
    ELSE << >>

StageAlertsAlwaysMedium(k, e) ==
    IF IsTransientError(e) \/ IsPermanentError(e)
    THEN <<AlertRecord(k, "MEDIUM")>>
    ELSE << >>

\* The same clauses: what the wrapper appends to the alerts.
StageAlerts(k, e) ==
    IF IsTransientError(e) THEN <<AlertRecord(k, "MEDIUM")>>
    ELSE IF IsPermanentError(e) THEN <<AlertRecord(k, "HIGH")>>
    ELSE << >>

(***************************************************************************)
(* SpecPipeline: one CallAgent, process_call invoked again and again by    *)
(* one caller, time passing between the invocations.                       *)
(***************************************************************************)
InitPipeline ==
    /\ breakers = [k \in Stages |-> NewBreaker(AgentFailureThreshold, AgentTimeout)]
    /\ pl = PipelineIdle
    /\ logs = << >>
    /\ alerts = << >>
    /\ trace = << >>
    /\ entry_breakers = breakers
    /\ now = 0
    /\ cb = NewBreaker(1, 1)
    /\ func_calls = 0
    /\ last = NoOp
    /\ fails_since = 0
    /\ th = [i \in ThreadIds |-> ThIdle]
    /\ RetryParked
    /\ ClassifyParked

pipelineFrame ==
    <<cb, func_calls, last, fails_since, th, retryVars, classifyVars>>

\* The locals of the execute_with_retry running in the current stage.
StageLocals ==
    [pc |-> pl.pc, attempt |-> pl.attempt, current_delay |-> pl.current_delay,
     raised |-> pl.raised]

WithLocals(p, loc) ==
    [p EXCEPT !.pc = loc.pc, !.attempt = loc.attempt,
              !.current_delay = loc.current_delay, !.raised = loc.raised]

AfterStageReturnsDropsOutput(p, out) ==
    IF p.stage < 3
    THEN WithLocals([p EXCEPT !.stage = @ + 1], RetryStart(AgentRetryManager))
    ELSE [p EXCEPT !.pc = "done", !.result = out]

\* process_call, lines 83-100: the wrapper of the current stage has returned
\* `out`; the next stage's wrapper is called with it, or, after TTS, it is
\* what process_call returns.
AfterStageReturns(p, out) ==
    IF p.stage < 3
    THEN WithLocals([p EXCEPT !.stage = @ + 1, !.arg = out],
                    RetryStart(AgentRetryManager))
    ELSE [p EXCEPT !.pc = "done", !.result = out]

\* process_call(audio_input) is entered; _call_stt_service starts
\* execute_with_retry.
StartCall ==
    /\ pl.pc \in {"idle", "done"}
    /\ pl.calls < MaxProcessCalls
    /\ pl' = WithLocals([pl EXCEPT !.stage = 1, !.arg = "audio_input",
                                   !.result = "none", !.calls = @ + 1],
                        RetryStart(AgentRetryManager))
    /\ logs' = << >>
    /\ alerts' = << >>
    /\ trace' = << >>
    /\ entry_breakers' = breakers
    /\ UNCHANGED <<breakers, now, pipelineFrame>>

\* One pass of the retry loop in the current stage: breaker.call(stage
\* function) runs, and execute_with_retry handles what it returned or raised.
\* When execute_with_retry returns, the stage wrapper returns and
\* process_call enters the next stage, or returns the audio after TTS.
StageAttempt(outcome) ==
    /\ pl.pc = "loop"
    /\ pl.attempt < AgentRetryManager.max_attempts
    /\ LET k   == pl.stage
           r   == call(breakers[k], now, now, outcome, Len(trace) + 1)
           loc == OnResult(AgentRetryManager, StageLocals, r.raised)
       IN  /\ breakers' = [breakers EXCEPT ![k] = r.cb]
           /\ trace' = IF r.invoked
                       THEN Append(trace, [stage |-> k, arg |-> pl.arg,
                                           outcome |-> outcome])
                       ELSE trace
           /\ pl' = IF loc.pc # "returned" THEN WithLocals(pl, loc)
                    ELSE AfterStageReturns(WithLocals(pl, loc), StageReturn[k])
    /\ UNCHANGED <<logs, alerts, entry_breakers, now, pipelineFrame>>

\* time.sleep(current_delay) in the retry loop of the current stage.
StageSleep ==
    /\ pl.pc = "sleep"
    /\ now' = now + pl.current_delay
    /\ pl' = WithLocals(pl, AfterSleep(AgentRetryManager, StageLocals))
    /\ UNCHANGED <<breakers, logs, alerts, trace, entry_breakers, pipelineFrame>>

\* execute_with_retry raised: the stage wrapper's except clauses log and
\* alert and re-raise; process_call's except clause prints and process_call
\* returns None.
StageFails ==
    /\ pl.pc = "raised"
    /\ logs' = logs \o StageLogs(pl.stage, pl.raised, breakers[pl.stage])
    /\ alerts' = alerts \o StageAlerts(pl.stage, pl.raised)
    /\ pl' = [pl EXCEPT !.pc = "done", !.result = "None"]
    /\ UNCHANGED <<breakers, trace, entry_breakers, now, pipelineFrame>>

\* Between two invocations of process_call the caller lets time pass: as
\* long as the breakers' timeout.
Wait ==
    /\ pl.pc \in {"idle", "done"}
    /\ pl.waits < MaxWaits
    /\ now' = now + AgentTimeout
    /\ pl' = [pl EXCEPT !.waits = @ + 1]
    /\ UNCHANGED <<breakers, logs, alerts, trace, entry_breakers, pipelineFrame>>

NextPipeline ==
    \/ StartCall
    \/ \E outcome \in StageOutcomes : StageAttempt(outcome)
    \/ StageSleep
    \/ StageFails
    \/ Wait

SpecPipeline == InitPipeline /\ [][NextPipeline]_vars

(***************************************************************************)
(* SpecClassify: classify_error applied to a status code.                  *)
(***************************************************************************)
StatusCodes == (0 - MaxStatusCode)..MaxStatusCode

InitClassify ==
    /\ status_code \in StatusCodes
    /\ classified = NoError
    /\ BreakerParked
    /\ RetryParked
    /\ PipelineParked

\* classify_error(status_code) is called and returns.
Classify ==
    /\ classified = NoError
    /\ classified' = classify_error(status_code)
    /\ UNCHANGED <<status_code, breakerVars, retryVars, pipelineVars>>

NextClassify == Classify

SpecClassify == InitClassify /\ [][NextClassify]_vars

(***************************************************************************)
(* Properties of SpecBreaker.                                              *)
(***************************************************************************)
\* The breaker let the wrapped function run in the last step and it failed.
LastCallFailed == last.op = "call" /\ last.invoked /\ last.raised # NoError

\* The breaker let the wrapped function run in the last step and it returned.
LastCallSucceeded == last.op = "call" /\ last.invoked /\ last.raised = NoError

\* The last step was a call() that failed fast.
LastCallRejected ==
    last.op = "call" /\ ~last.invoked /\ last.raised = CircuitOpenError

\* The breaker is OPEN and less than timeout has passed since the recorded
\* last failure.
OpenAndCooling ==
    /\ cb.state = OPEN
    /\ cb.last_failure_time # None
    /\ now - cb.last_failure_time < cb.timeout

\* The breaker is OPEN and at least timeout has passed since the recorded
\* last failure.
OpenAndDue ==
    /\ cb.state = OPEN
    /\ cb.last_failure_time # None
    /\ now - cb.last_failure_time >= cb.timeout

\* C2: starting from CLOSED with failure count 0 (creation, a success or
\* reset()), the breaker is still CLOSED after each of the first T-1
\* consecutive failing calls and is OPEN from the T-th on: the T-th failure
\* is the one that trips it.
C2_TripsAtThreshold ==
    /\ fails_since < cb.failure_threshold => cb.state = CLOSED
    /\ fails_since >= cb.failure_threshold => cb.state = OPEN

C2_Witness ==
    /\ cb.failure_threshold = MaxThreshold
    /\ fails_since = MaxThreshold
    /\ LastCallFailed
    /\ last.state_at_invoke = CLOSED
    /\ cb.state = OPEN

\* C3: a call() made while the breaker is OPEN and less than timeout has
\* passed since the recorded last failure raises the circuit-open error and
\* does not invoke the wrapped function.
C3_OpenRejects ==
    [][(OpenAndCooling /\ last'.op = "call")
          => /\ last'.raised = CircuitOpenError
             /\ ~last'.invoked
             /\ func_calls' = func_calls]_vars

C3_Witness == OpenAndCooling /\ LastCallRejected

\* C4: a call() made while the breaker is OPEN and at least timeout has
\* passed since the last failure invokes the wrapped function exactly once,
\* and the function runs with the breaker already HALF_OPEN.
C4_ProbeAfterTimeout ==
    [][(OpenAndDue /\ last'.op = "call")
          => /\ last'.invoked
             /\ last'.state_at_invoke = HALF_OPEN
             /\ func_calls' = func_calls + 1]_vars

C4_Witness ==
    /\ last.op = "call"
    /\ last.invoked
    /\ last.state_at_invoke = HALF_OPEN

\* C5: right after a call() whose wrapped function succeeded, from CLOSED
\* or from HALF_OPEN, the breaker is CLOSED with failure count 0.
C5_SuccessClosesAndClears ==
    LastCallSucceeded => cb.state = CLOSED /\ cb.failure_count = 0

C5_Witness ==
    /\ LastCallSucceeded
    /\ last.state_at_invoke = HALF_OPEN
    /\ cb.state = CLOSED
    /\ cb.failure_count = 0

\* C6: right after a failed HALF_OPEN probe the breaker is OPEN and its
\* failure timestamp is the time of that failure; and every call() made less
\* than timeout after a failed probe is rejected without invoking the
\* wrapped function.
C6_FailedProbeReopens ==
    /\ []((LastCallFailed /\ last.state_at_invoke = HALF_OPEN)
             => cb.state = OPEN /\ cb.last_failure_time = now)
    /\ [][(/\ last.probe_failed_at # None
           /\ now - last.probe_failed_at < cb.timeout
           /\ last'.op = "call")
             => ~last'.invoked /\ last'.raised = CircuitOpenError]_vars

C6_Witness ==
    /\ LastCallRejected
    /\ last.probe_failed_at # None
    /\ now > last.probe_failed_at
    /\ now - last.probe_failed_at < cb.timeout

\* C16: from every reachable breaker record and at every time, a call()
\* whose wrapped function fails leaves the same breaker record (state,
\* failure count, failure timestamp) whatever the class of the exception:
\* transient, permanent or outside both hierarchies.  Two breakers of one
\* configuration fed the same outcomes at the same times therefore stay
\* equal call after call.
C16_CauseAgnostic ==
    \A o1 \in FuncFailures, o2 \in FuncFailures, d \in 0..MaxDur :
        LET r1 == call(cb, now, now + d, o1, func_calls + 1)
            r2 == call(cb, now, now + d, o2, func_calls + 1)
        IN  /\ r1.cb = r2.cb
            /\ get_state(r1.cb) = get_state(r2.cb)
            /\ r1.invoked = r2.invoked
            /\ r1.state_at_invoke = r2.state_at_invoke

\* A permanent failure, the last of MaxThreshold consecutive failures, has
\* tripped the breaker.
C16_Witness ==
    /\ LastCallFailed
    /\ IsPermanentError(last.raised)
    /\ last.state_at_invoke = CLOSED
    /\ cb.failure_threshold = MaxThreshold
    /\ cb.failure_count = MaxThreshold
    /\ cb.state = OPEN

\* C17: reset() applied to any reachable breaker record gives the record of
\* a newly created breaker of the same configuration (CLOSED, failure count
\* 0, no failure timestamp), so that from there on it behaves as a new one:
\* the next call() invokes the wrapped function whatever the time.  Applying
\* reset() twice gives what applying it once gives.  Every reset() step ends
\* in that record, and no call() step clears a recorded failure timestamp,
\* which reset() does: call() never resets.
C17_ResetIsFreshStart ==
    /\ [](/\ reset(cb) = NewBreaker(cb.failure_threshold, cb.timeout)
          /\ reset(reset(cb)) = reset(cb)
          /\ \A outcome \in FuncOutcomes :
                call(reset(cb), now, now, outcome, func_calls + 1).invoked)
    /\ [][last'.op = "reset"
             => cb' = NewBreaker(cb.failure_threshold, cb.timeout)]_vars
    /\ [][(last'.op = "call" /\ cb.last_failure_time # None)
             => cb'.last_failure_time # None]_vars

\* reset() has just been applied to a breaker that had seen as many
\* invocations as its threshold.
C17_Witness ==
    /\ last.op = "reset"
    /\ cb = NewBreaker(MaxThreshold, MaxTimeout)
    /\ func_calls >= MaxThreshold
    /\ now > 0
    /\ fails_since = 0

\* C20: from every reachable breaker record and at every time, a call()
\* that invokes the wrapped function returns when the function returns and
\* otherwise raises the very exception object the function raised, so that
\* it is a TransientError or a PermanentError exactly when the function's
\* exception is; a call() that does not invoke the function raises the
\* circuit-open Exception.
C20_CallIsTransparent ==
    \A outcome \in FuncOutcomes, d \in 0..MaxDur :
        LET n == func_calls + 1
            r == call(cb, now, now + d, outcome, n)
        IN  /\ r.invoked
                  => /\ r.raised = IF outcome = "ok" THEN NoError
                                   ELSE Raised(outcome, n)
                     /\ IsTransientError(r.raised)
                           <=> outcome \in TransientClasses
                     /\ IsPermanentError(r.raised)
                           <=> outcome \in PermanentClasses
            /\ ~r.invoked => r.raised = CircuitOpenError

\* A HALF_OPEN probe raised a transient error and call() raised that object.
C20_Witness ==
    /\ LastCallFailed
    /\ last.state_at_invoke = HALF_OPEN
    /\ IsTransientError(last.raised)
    /\ last.raised.id = func_calls

\* C21: between operations, and also while a recovery probe runs with the
\* breaker HALF_OPEN, the failure count get_state() reports is the number of
\* failed invocations of the wrapped function since the breaker was created,
\* last saw the function succeed, or was reset(), whichever came last.
C21_CountIsFailuresSince ==
    /\ get_state(cb).failure_count = fails_since
    /\ get_state(BeforeInvoke(cb, now)).failure_count = fails_since

\* A failed probe has been counted on top of the failures that tripped the
\* breaker, and the next probe is due.
C21_Witness ==
    /\ cb.state = OPEN
    /\ cb.failure_count = cb.failure_threshold + 1
    /\ fails_since = cb.failure_threshold + 1
    /\ BeforeInvoke(cb, now).state = HALF_OPEN

\* C27: a CLOSED breaker has a failure count below failure_threshold and an
\* OPEN breaker one of at least failure_threshold.
C27_CountAgreesWithState ==
    /\ cb.failure_threshold >= 1
    /\ cb.state = CLOSED => cb.failure_count < cb.failure_threshold
    /\ cb.state = OPEN => cb.failure_count >= cb.failure_threshold

\* The count of a CLOSED breaker one failure short of tripping, after a
\* reset() or a success cleared an earlier count.
C27_Witness ==
    /\ cb.state = CLOSED
    /\ cb.failure_threshold = MaxThreshold
    /\ cb.failure_count = MaxThreshold - 1
    /\ func_calls > MaxThreshold

\* C26: a call() that is rejected leaves the breaker record as it was:
\* state OPEN, the same failure count, the same failure timestamp.  The
\* time at which the breaker admits a probe is therefore the same after any
\* number of rejected calls.
C26_RejectionChangesNothing ==
    /\ [](\A outcome \in FuncOutcomes, d \in 0..MaxDur :
            LET r == call(cb, now, now + d, outcome, func_calls + 1)
            IN  ~r.invoked => r.cb = cb /\ cb.state = OPEN)
    /\ [][(last'.op = "call" /\ ~last'.invoked)
             => /\ cb' = cb
                /\ cb'.state = OPEN
                /\ cb'.failure_count = cb.failure_count
                /\ cb'.last_failure_time = cb.last_failure_time]_vars

\* A call was rejected some time after the failure that opened the breaker,
\* and the timestamp is still that of the failure.
C26_Witness ==
    /\ LastCallRejected
    /\ cb.state = OPEN
    /\ cb.timeout = MaxTimeout
    /\ cb.last_failure_time # None
    /\ cb.last_failure_time < now
    /\ cb.failure_count = cb.failure_threshold

\* The last step was a call() that invoked the wrapped function as a
\* HALF_OPEN probe.
ProbeInvoked ==
    last.op = "call" /\ last.invoked /\ last.state_at_invoke = HALF_OPEN

\* The breaker is OPEN, and the clock and the caller can go on until its
\* timeout has passed.
OpenWithRoom ==
    /\ cb.state = OPEN
    /\ cb.last_failure_time # None
    /\ cb.last_failure_time + cb.timeout <= MaxTime
    /\ func_calls < MaxFuncCalls

\* C24: when the breaker is OPEN and time keeps passing and call() keeps
\* being made, the wrapped function is eventually invoked as a HALF_OPEN
\* probe (unless reset() closes the breaker first); and after a probe that
\* returned the breaker is CLOSED.
C24_OpenEventuallyProbes ==
    /\ OpenWithRoom ~> (ProbeInvoked \/ last.op = "reset")
    /\ []((ProbeInvoked /\ last.raised = NoError) => cb.state = CLOSED)

\* A probe made after the longest timeout has returned and closed the
\* breaker.
C24_Witness ==
    /\ ProbeInvoked
    /\ last.raised = NoError
    /\ cb.state = CLOSED
    /\ cb.timeout = MaxTimeout
    /\ cb.last_failure_time # None
    /\ now - cb.last_failure_time >= MaxTimeout

(***************************************************************************)
(* Properties of SpecConc.                                                 *)
(***************************************************************************)
\* Threads whose invocation of the wrapped function is in flight.
InFlight == {i \in ThreadIds : th[i].pc = "in_func"}

\* In-flight invocations let through as recovery probes: by a call() that
\* found the breaker OPEN or HALF_OPEN.
ProbesInFlight == {i \in InFlight : th[i].found \in {OPEN, HALF_OPEN}}

AllIdle == \A i \in ThreadIds : th[i].pc = "idle"

\* C7: while the breaker is HALF_OPEN at most one probe of the wrapped
\* function is in flight, and no call() that found the breaker HALF_OPEN
\* has invoked the wrapped function.
C7_OneProbeInHalfOpen ==
    /\ cb.state = HALF_OPEN => Cardinality(ProbesInFlight) <= 1
    /\ \A i \in InFlight : th[i].found # HALF_OPEN

\* C8: when each of the two threads has made one call() through the breaker
\* created CLOSED and both wrapped functions failed, both failures are
\* counted and the breaker is OPEN if that count reaches the threshold.
C8_BothFailuresCounted ==
    (AllIdle /\ \A i \in ThreadIds : th[i].calls = 1 /\ th[i].fails = 1)
        => /\ cb.failure_count = Cardinality(ThreadIds)
           /\ (Cardinality(ThreadIds) >= cb.failure_threshold
                  => cb.state = OPEN)

\* C25: whatever the interleaving of call()s and reset()s on one breaker,
\* an OPEN breaker has a failure timestamp.
C25_OpenHasStamp ==
    cb.state = OPEN => cb.last_failure_time # None

(***************************************************************************)
(* Properties of SpecRetry.                                                *)
(***************************************************************************)
RECURSIVE Pow(_, _)
Pow(m, k) == IF k = 0 THEN 1 ELSE m * Pow(m, k - 1)

\* execute_with_retry has returned or raised.
RetryEnded == rt.pc \in {"returned", "returned_none", "raised"}

\* Every invocation of func so far raised a transient error.
AllTransient == \A k \in 1..Len(fn_log) : IsTransientError(fn_log[k])

\* C9: when func raises a transient error on every invocation and
\* max_attempts = N >= 1, execute_with_retry ends by raising, func has been
\* invoked exactly N times, the sleeps were d, d*m, ..., d*m^(N-2) in that
\* order (none after the N-th attempt), and the exception raised is the one
\* of the N-th invocation.
C9_ExhaustionSchedule ==
    (rm.max_attempts >= 1 /\ AllTransient /\ RetryEnded)
        => /\ rt.pc = "raised"
           /\ Len(fn_log) = rm.max_attempts
           /\ sleeps = [k \in 1..(rm.max_attempts - 1) |->
                           rm.initial_delay * Pow(rm.backoff_multiplier, k - 1)]
           /\ rt.raised = fn_log[rm.max_attempts]

C9_Witness ==
    /\ rm = NewRetryManager(5, 2, 3)
    /\ AllTransient
    /\ rt.pc = "raised"
    /\ Len(fn_log) = 3
    /\ sleeps = <<5, 10>>
    /\ rt.raised = fn_log[3]

\* C10: with max_attempts = N >= 1, whatever func does, there are never more
\* than N invocations nor more than N-1 sleeps, every sleep is followed by
\* another invocation (when the run has ended there is one sleep less than
\* invocations), and a run that has not ended can take its next step.
C10_BoundedAttempts ==
    rm.max_attempts >= 1
        => /\ Len(fn_log) <= rm.max_attempts
           /\ Len(sleeps) <= rm.max_attempts - 1
           /\ Len(sleeps) <= Len(fn_log)
           /\ RetryEnded => Len(sleeps) = Len(fn_log) - 1
           /\ ~RetryEnded => ENABLED NextRetry

C10_Witness ==
    /\ rm.max_attempts = MaxAttempts
    /\ RetryEnded
    /\ Len(fn_log) = MaxAttempts
    /\ Len(sleeps) = MaxAttempts - 1

\* C11: with max_attempts >= 1 execute_with_retry starts by invoking func;
\* when the first invocation of func raises an exception that is not a
\* TransientError (a PermanentError, or one outside both hierarchies such as
\* the breaker's circuit-open Exception), then whatever max_attempts is, func
\* is invoked exactly once, nothing is slept, and execute_with_retry raises
\* that very exception object.
C11_NonTransientFailsAtOnce ==
    /\ (rm.max_attempts >= 1 /\ fn_log = << >>)
          => rt.pc = "loop" /\ rt.attempt < rm.max_attempts
    /\ (/\ Len(fn_log) >= 1
        /\ fn_log[1] # NoError
        /\ ~IsTransientError(fn_log[1]))
          => /\ Len(fn_log) = 1
             /\ sleeps = << >>
             /\ rt.pc = "raised"
             /\ rt.raised = fn_log[1]

C11_Witness ==
    /\ rm.max_attempts = MaxAttempts
    /\ Len(fn_log) = 1
    /\ IsPermanentError(fn_log[1])
    /\ rt.pc = "raised"
    /\ rt.raised = fn_log[1]
    /\ sleeps = << >>

\* The invocations of func before the last one all raised a transient error
\* and the last one returned.
SucceededAfterTransients ==
    /\ Len(fn_log) >= 1
    /\ fn_log[Len(fn_log)] = NoError
    /\ \A j \in 1..(Len(fn_log) - 1) : IsTransientError(fn_log[j])

\* C12: after k < max_attempts transient failures and nothing else the run
\* has not given up: it is about to sleep for the k-th time or, having slept
\* k times, about to invoke func again.  When invocation k+1 returns,
\* execute_with_retry has returned after exactly k+1 invocations and k
\* sleeps, and it takes no further step.
C12_SuccessAfterTransients ==
    /\ (AllTransient /\ Len(fn_log) < rm.max_attempts)
          => \/ rt.pc = "sleep" /\ Len(sleeps) = Len(fn_log) - 1
             \/ rt.pc = "loop" /\ Len(sleeps) = Len(fn_log)
    /\ SucceededAfterTransients
          => /\ rt.pc = "returned"
             /\ Len(fn_log) <= rm.max_attempts
             /\ Len(sleeps) = Len(fn_log) - 1
             /\ ~ENABLED NextRetry

C12_Witness ==
    /\ SucceededAfterTransients
    /\ Len(fn_log) = MaxAttempts
    /\ Len(sleeps) = MaxAttempts - 1
    /\ rt.pc = "returned"

(***************************************************************************)
(* Properties of SpecPipeline.                                             *)
(***************************************************************************)
\* process_call has returned None: the invocation failed.
CallFailed == pl.pc = "done" /\ pl.result = "None"

\* C1: when process_call returns failure, whatever the cause, the
\* invocation has appended exactly one log record and exactly one alert.
C1_OneLogOneAlertPerFailure ==
    CallFailed => Len(logs) = 1 /\ Len(alerts) = 1

\* C13: every alert process_call emits has severity MEDIUM or HIGH and names
\* the stage that failed; when process_call has failed with a TransientError
\* out of stage k the alerts of the invocation are one MEDIUM alert for stage
\* k, and with a PermanentError one HIGH alert for stage k.
C13_SeverityFollowsKind ==
    /\ \A j \in 1..Len(alerts) :
          /\ alerts[j].severity \in {"MEDIUM", "HIGH"}
          /\ alerts[j].service_name = ServiceName[pl.stage]
    /\ (CallFailed /\ IsTransientError(pl.raised))
          => Len(alerts) = 1 /\ alerts[1].severity = "MEDIUM"
    /\ (CallFailed /\ IsPermanentError(pl.raised))
          => Len(alerts) = 1 /\ alerts[1].severity = "HIGH"

C13_Witness ==
    /\ CallFailed
    /\ pl.stage = 3
    /\ IsPermanentError(pl.raised)
    /\ Len(alerts) = 1
    /\ alerts[1].severity = "HIGH"
    /\ alerts[1].service_name = "TTS"

\* process_call has returned the audio: the invocation succeeded.
CallSucceeded == pl.pc = "done" /\ pl.result # "None"

\* C14: within one process_call the first stage function invoked is STT with
\* audio_input; after an invocation of stage k that returned, the next
\* invocation is of stage k+1 and its argument is what stage k returned;
\* after one that raised, the next invocation, if any, is of stage k again
\* with the same argument.  When process_call has failed at stage k it
\* returns None, no function of a later stage was invoked and no invocation
\* of stage k returned; when it has succeeded it returns what TTS returned.
C14_StagesInOrder ==
    /\ trace # << >>
          => trace[1].stage = 1 /\ trace[1].arg = "audio_input"
    /\ \A j \in 1..(Len(trace) - 1) :
          IF trace[j].outcome = "ok"
          THEN /\ trace[j + 1].stage = trace[j].stage + 1
               /\ trace[j + 1].arg = StageReturn[trace[j].stage]
          ELSE /\ trace[j + 1].stage = trace[j].stage
               /\ trace[j + 1].arg = trace[j].arg
    /\ CallFailed
          => /\ pl.result = "None"
             /\ \A j \in 1..Len(trace) :
                   /\ trace[j].stage <= pl.stage
                   /\ trace[j].stage = pl.stage => trace[j].outcome # "ok"
    /\ CallSucceeded
          => /\ trace # << >>
             /\ trace[Len(trace)].stage = 3
             /\ trace[Len(trace)].outcome = "ok"
             /\ pl.result = StageReturn[3]

C14_Witness ==
    /\ CallFailed
    /\ pl.stage = 2
    /\ Len(trace) = 3
    /\ trace[1] = [stage |-> 1, arg |-> "audio_input", outcome |-> "ok"]
    /\ trace[2].stage = 2 /\ trace[2].arg = "text" /\ trace[2].outcome # "ok"
    /\ trace[3].stage = 2 /\ trace[3].arg = "text" /\ trace[3].outcome # "ok"

\* C15: when process_call has failed at stage k, the breaker of every stage
\* before k is CLOSED with failure count 0, the breaker of stage k has a
\* failure count of at least 1, and the breaker of every stage after k is
\* the record it was when process_call was entered.
C15_BreakersAfterAbort ==
    CallFailed
        => /\ \A j \in Stages :
                 j < pl.stage => /\ breakers[j].state = CLOSED
                                 /\ breakers[j].failure_count = 0
           /\ breakers[pl.stage].failure_count >= 1
           /\ \A j \in Stages :
                 j > pl.stage => breakers[j] = entry_breakers[j]

\* Fresh breakers, STT fails once and then returns, LLM raises a permanent
\* error: TTS was never invoked.
C15_Witness ==
    /\ CallFailed
    /\ pl.stage = 2
    /\ IsPermanentError(pl.raised)
    /\ \A j \in Stages :
          entry_breakers[j] = NewBreaker(AgentFailureThreshold, AgentTimeout)
    /\ Len(trace) = 3
    /\ trace[1].outcome # "ok"
    /\ breakers[1].state = CLOSED
    /\ breakers[1].failure_count = 0
    /\ breakers[2].failure_count = 1
    /\ breakers[3] = NewBreaker(AgentFailureThreshold, AgentTimeout)
    /\ \A j \in 1..Len(trace) : trace[j].stage # 3

\* C18: what a failed process_call returns is not the bare None but a value
\* that tells the stage at which it aborted and the kind of the failure.
C18_ResultTellsStageAndKind ==
    CallFailed => pl.result # "None"

\* The invocations of the function of stage k by the current process_call.
StageTrace(k) == SelectSeq(trace, LAMBDA x : x.stage = k)

\* C22: the circuit state in the log record of a failed process_call is the
\* state of the failed stage's breaker as it is after the last attempt; when
\* that breaker was CLOSED with failure count 0 at entry and the stage's
\* function raised a transient error on each of three attempts, the record
\* says OPEN.
C22_LoggedStateIsCurrent ==
    /\ (CallFailed /\ Len(logs) >= 1)
          => /\ logs[1].circuit_state = breakers[pl.stage].state
             /\ logs[1].service_name = ServiceName[pl.stage]
    /\ (/\ CallFailed
        /\ entry_breakers[pl.stage].state = CLOSED
        /\ entry_breakers[pl.stage].failure_count = 0
        /\ Len(StageTrace(pl.stage)) = AgentMaxAttempts
        /\ IsTransientError(pl.raised))
          => /\ Len(logs) = 1
             /\ logs[1].circuit_state = OPEN

C22_Witness ==
    /\ CallFailed
    /\ pl.stage = 1
    /\ entry_breakers[1] = NewBreaker(AgentFailureThreshold, AgentTimeout)
    /\ Len(trace) = AgentMaxAttempts
    /\ IsTransientError(pl.raised)
    /\ logs = <<[service_name |-> "STT", error_type |-> "TransientError",
                 retry_count |-> 0, circuit_state |-> OPEN]>>

\* C28: while process_call runs, whatever transient failures the retry loop
\* has absorbed, nothing has been logged and no alert sent; a process_call
\* that has succeeded has logged nothing and sent no alert; one that has
\* failed has logged at most one record and sent at most one alert, however
\* many attempts the failed stage and the stages before it made.
C28_AbsorbedFailuresAreSilent ==
    /\ pl.pc \in {"loop", "sleep", "raised"}
          => logs = << >> /\ alerts = << >>
    /\ CallSucceeded => logs = << >> /\ alerts = << >>
    /\ CallFailed => Len(logs) <= 1 /\ Len(alerts) <= 1

\* Every stage needed a retry and the call succeeded in silence.
C28_Witness ==
    /\ CallSucceeded
    /\ \A k \in Stages : Len(StageTrace(k)) >= 2
    /\ logs = << >>
    /\ alerts = << >>

\* process_call is about to call breaker.call for the current stage, whose
\* breaker is OPEN with less than its timeout passed since the recorded
\* failure.
StageOpenAndCooling ==
    /\ pl.pc = "loop"
    /\ breakers[pl.stage].state = OPEN
    /\ breakers[pl.stage].last_failure_time # None
    /\ now - breakers[pl.stage].last_failure_time < breakers[pl.stage].timeout

\* process_call has failed at a stage whose breaker was OPEN when it was
\* entered and whose timeout has not passed since.
FailedAtOpenStage ==
    /\ CallFailed
    /\ entry_breakers[pl.stage].state = OPEN
    /\ now - entry_breakers[pl.stage].last_failure_time
           < entry_breakers[pl.stage].timeout

\* C23: the breakers live as long as the CallAgent.  A breaker.call made for
\* a stage whose breaker is OPEN and cooling raises the circuit-open
\* Exception without invoking the stage function or touching any breaker,
\* and execute_with_retry raises it on without a retry; what follows that is
\* the abort of process_call at this stage.  So a process_call that was
\* entered with stage k's breaker OPEN and reached stage k within the
\* timeout has invoked the functions of the stages before k until each
\* returned, has not invoked stage k's function, has made one breaker.call
\* for stage k (the rejected one) and has failed at stage k.
C23_OpenStageAborts ==
    /\ [][StageOpenAndCooling
             => /\ pl'.pc = "raised"
                /\ pl'.raised = CircuitOpenError
                /\ pl'.stage = pl.stage
                /\ pl'.attempt = pl.attempt
                /\ trace' = trace
                /\ breakers' = breakers
                /\ now' = now]_vars
    /\ [][pl.pc = "raised"
             => /\ pl'.pc = "done"
                /\ pl'.result = "None"
                /\ pl'.stage = pl.stage
                /\ trace' = trace
                /\ breakers' = breakers]_vars
    /\ [](FailedAtOpenStage
             => /\ pl.raised = CircuitOpenError
                /\ pl.attempt = 0
                /\ StageTrace(pl.stage) = << >>
                /\ \A j \in 1..(pl.stage - 1) :
                      /\ StageTrace(j) # << >>
                      /\ StageTrace(j)[Len(StageTrace(j))].outcome = "ok")

\* The second process_call found the LLM breaker OPEN: STT ran, LLM did not.
C23_Witness ==
    /\ FailedAtOpenStage
    /\ pl.calls = 2
    /\ pl.stage = 2
    /\ pl.raised = CircuitOpenError
    /\ StageTrace(1) # << >>
    /\ StageTrace(2) = << >>
    /\ breakers[2] = entry_breakers[2]

(***************************************************************************)
(* Properties of SpecClassify.                                             *)
(***************************************************************************)
ServerErrorCodes == 500..599

\* C19: classify_error returns for every integer status code, and what it
\* returns follows the table: 503 ServiceUnavailableError, 429
\* RateLimitError, 408 and 504 TimeoutError, 401 and 403
\* AuthenticationError, 404 ResourceNotFoundError, 400 InvalidPayloadError,
\* any other code of 500..599 a plain TransientError, any other code a plain
\* PermanentError.  The result is a TransientError exactly for 408, 429 and
\* 500..599, and is never both a TransientError and a PermanentError.
C19_ClassifyTable ==
    /\ classified = NoError => ENABLED Classify
    /\ classified # NoError
          => /\ classified.cls \in TransientClasses \cup PermanentClasses
             /\ status_code = 503 => classified.cls = "ServiceUnavailableError"
             /\ status_code = 429 => classified.cls = "RateLimitError"
             /\ status_code \in {408, 504} => classified.cls = "TimeoutError"
             /\ status_code \in {401, 403}
                   => classified.cls = "AuthenticationError"
             /\ status_code = 404 => classified.cls = "ResourceNotFoundError"
             /\ status_code = 400 => classified.cls = "InvalidPayloadError"
             /\ status_code \in ServerErrorCodes \ {503, 504}
                   => classified.cls = "TransientError"
             /\ status_code \notin
                     ServerErrorCodes \cup {400, 401, 403, 404, 408, 429}
                   => classified.cls = "PermanentError"
             /\ IsTransientError(classified)
                   <=> status_code \in ServerErrorCodes \cup {408, 429}
             /\ ~(IsTransientError(classified) /\ IsPermanentError(classified))

C19_Witness ==
    /\ status_code = 504
    /\ classified.cls = "TimeoutError"
    /\ IsTransientError(classified)

=============================================================================
